---- MODULE Spec2Model ----
(***************************************************************************)
(* A model of cluster_code.py: a straight-line script that loads a World   *)
(* Development Indicators CSV, cleans and reshapes it (read_data), plots   *)
(* rankings (visualize), clusters the country-year rows with k-means       *)
(* (cluster_data), plots the clusters (visualize_clusters) and fits a      *)
(* linear trend with error bands (fit_model_with_errors).                  *)
(*                                                                         *)
(* Tables are records [cols |-> sequence of column names,                  *)
(* rows |-> sequence of functions column name -> cell].  CSV cells are     *)
(* text; cells of a column converted by astype(float) are integers or NaN. *)
(* DataFrames live in a heap of objects and the script's names (df1, df2,  *)
(* c_data, ...) hold references, so that copying and in-place assignment   *)
(* are distinguishable.                                                    *)
(***************************************************************************)
EXTENDS Integers, Sequences, FiniteSets, TLC

VARIABLES
  pc,              \* the statement of the script that runs next
  failed_at,       \* the statement whose exception ended the script
  visited,         \* the statements started so far, in order
  csv,             \* the contents of cluster_data.csv
  heap,            \* the DataFrame objects, by reference
  df1, df2,        \* line 74
  indicator_list,  \* line 76
  c_data, n_data,  \* line 150
  fit_result,      \* lines 256-261
  wdi_filled,      \* read_data's wdi_data after line 38
  np_random,       \* the state of numpy's process-wide generator
  call             \* a direct call of one function: its arguments and results

vars == <<pc, failed_at, visited, csv, heap, df1, df2, indicator_list, c_data,
          n_data, fit_result, wdi_filled, np_random, call>>

---------------------------------------------------------------------------
(* Bounds of the model *)

\* Largest number of data rows of the CSV file.
MaxRows == 3

\* Row position from which read_data drops the rows (line 44).  The script's
\* literal is 1519; the cut only compares row positions with this number, so
\* the model scales it down to keep the tables enumerable.
MetaRowStart == 2

---------------------------------------------------------------------------
(* Cell values *)

\* The sentinel token of the CSV file, replaced at line 35.
DOTS == ".."
\* pd.NA, what line 35 puts in place of the token.
PD_NA == "<NA>"
\* An empty CSV cell: read_csv loads it as a missing value (float NaN).
EMPTY == ""
\* Float NaN in a column converted by astype(float); real values are >= 0.
NaN == -1

\* pandas' isna on a cell of the table as loaded (text cells).
isna(v) == v = PD_NA \/ v = EMPTY

\* The decimal numerals the model's files hold, and float() of such a text.
Numerals == <<"0", "1", "2", "3">>

ParseFloat(s) == (CHOOSE i \in 1..Len(Numerals) : Numerals[i] = s) - 1

---------------------------------------------------------------------------
(* Column names and the sort orders pandas uses on them *)

SERIES == "Series Name"
SCODE == "Series Code"
COUNTRY == "Country Name"
CCODE == "Country Code"
YEAR == "Year"
CLUSTER == "Cluster"
RANK == "Rank"

\* The year columns named at lines 50-52 (the script names nine; the model
\* keeps the first and the last), in ascending order.
YearCols == <<"1980", "2020">>

CO2 == "CO2 emissions (kg per PPP $ of GDP)"
FOREST == "Forest area (% of land area)"

\* Indicator and country names of the model's files in lexicographic order,
\* the order sort_index / groupby give them.
IndicatorOrder == <<CO2, FOREST>>
CountryOrder == <<"Aruba", "Benin">>

CsvCols == <<COUNTRY, CCODE, SERIES, SCODE>> \o YearCols

Range(s) == {s[i] : i \in DOMAIN s}

IndexOf(s, v) == CHOOSE i \in DOMAIN s : s[i] = v

Reverse(s) == [i \in 1..Len(s) |-> s[Len(s) + 1 - i]]

Min2(a, b) == IF a <= b THEN a ELSE b

RECURSIVE Sum(_)
Sum(s) == IF s = <<>> THEN 0 ELSE Head(s) + Sum(Tail(s))

SetMax(S) == CHOOSE m \in S : \A x \in S : x <= m
SetMin(S) == CHOOSE m \in S : \A x \in S : m <= x

\* The members of set S that occur in the ordered sequence order, in order.
SortedBy(S, order) == SelectSeq(order, LAMBDA v : v \in S)

---------------------------------------------------------------------------
(* read_data, lines 21-72 *)

Column(t, c) == [i \in 1..Len(t.rows) |-> t.rows[i][c]]

\* Line 35: replace('..', pd.NA) on every cell.
replace_dots(t) ==
  [t EXCEPT !.rows = [i \in 1..Len(t.rows) |->
      [c \in DOMAIN t.rows[i] |->
          IF t.rows[i][c] = DOTS THEN PD_NA ELSE t.rows[i][c]]]]

\* fillna(method='ffill') on one column: a scan from the top that carries the
\* last valid value (carry is <<>> until there is one).
RECURSIVE FFillScan(_, _)
FFillScan(s, carry) ==
  IF s = <<>> THEN <<>>
  ELSE IF isna(Head(s))
       THEN <<IF carry = <<>> THEN Head(s) ELSE carry[1]>>
              \o FFillScan(Tail(s), carry)
       ELSE <<Head(s)>> \o FFillScan(Tail(s), <<Head(s)>>)

ffill_col(s) == FFillScan(s, <<>>)

\* fillna(method='bfill'): the same scan from the bottom.
bfill_col(s) == Reverse(FFillScan(Reverse(s), <<>>))

\* A faulty variant of fill_col: the two fills in the other order.
fill_col_bfill_first(s) == ffill_col(bfill_col(s))

\* Line 38 on one column: forward fill, then backward fill.
fill_col(s) == bfill_col(ffill_col(s))

\* Line 38: fillna(method='ffill').fillna(method='bfill'), column by column.
fillna(t) ==
  LET filled == [c \in Range(t.cols) |-> fill_col(Column(t, c))]
  IN [t EXCEPT !.rows = [i \in 1..Len(t.rows) |->
                           [c \in Range(t.cols) |-> filled[c][i]]]]

\* Line 41: drop_duplicates() keeps the first of the rows equal in every column.
RECURSIVE DropDupRows(_, _)
DropDupRows(rows, seen) ==
  IF rows = <<>> THEN <<>>
  ELSE IF Head(rows) \in seen
       THEN DropDupRows(Tail(rows), seen)
       ELSE <<Head(rows)>> \o DropDupRows(Tail(rows), seen \cup {Head(rows)})

drop_duplicates(t) == [t EXCEPT !.rows = DropDupRows(t.rows, {})]

\* Line 44: drop(index[MetaRowStart:]) keeps the rows before that position.
drop_meta_rows(t) ==
  [t EXCEPT !.rows = SubSeq(t.rows, 1, Min2(MetaRowStart, Len(t.rows)))]

\* Lines 35-38: the table after the replacement and the two fills.
filled_table(t) == fillna(replace_dots(t))

\* A faulty variant of clean_rows: the metadata rows are cut before de-duplication.
clean_rows_cut_first(t) == drop_duplicates(drop_meta_rows(filled_table(t)))

\* Lines 34-44: replace, fill, de-duplicate, cut, in that order.
clean_rows(t) == drop_meta_rows(drop_duplicates(filled_table(t)))

\* Line 47: drop(["Country Code", "Series Code"], axis=1).
drop_code_columns(t) ==
  LET keep == SelectSeq(t.cols, LAMBDA c : c \notin {CCODE, SCODE})
  IN [cols |-> keep,
      rows |-> [i \in 1..Len(t.rows) |-> [c \in Range(keep) |-> t.rows[i][c]]]]

\* Lines 50-52: astype(float) raises when a cell is pd.NA (float(pd.NA) is a
\* TypeError); a NaN cell stays NaN, a numeral is parsed.
astype_float_fails(t) ==
  \E i \in 1..Len(t.rows) : \E y \in Range(YearCols) : t.rows[i][y] = PD_NA

to_float(v) == IF v = EMPTY THEN NaN ELSE ParseFloat(v)

astype_float(t) ==
  [t EXCEPT !.rows = [i \in 1..Len(t.rows) |->
      [c \in DOMAIN t.rows[i] |->
          IF c \in Range(YearCols) THEN to_float(t.rows[i][c])
          ELSE t.rows[i][c]]]]

\* Lines 56-59: melt with id_vars Series Name and Country Name: one long row
\* per year column and table row, year columns outermost.
RECURSIVE MeltYears(_, _)
MeltYears(t, years) ==
  IF years = <<>> THEN <<>>
  ELSE [i \in 1..Len(t.rows) |->
          [s |-> t.rows[i][SERIES], c |-> t.rows[i][COUNTRY],
           y |-> Head(years), v |-> t.rows[i][Head(years)]]]
       \o MeltYears(t, Tail(years))

melt(t) == MeltYears(t, SelectSeq(t.cols, LAMBDA c : c \notin {SERIES, COUNTRY}))

\* A faulty variant of group_first: aggfunc='last', the last non-null Value.
group_last(long, y, c, s) ==
  LET g == SelectSeq(long, LAMBDA r : r.y = y /\ r.c = c /\ r.s = s /\ r.v # NaN)
  IN IF g = <<>> THEN NaN ELSE g[Len(g)].v

\* aggfunc='first' of one (Year, Country Name, Series Name) group: the first
\* non-null Value in row order, NaN when the group has none.
group_first(long, y, c, s) ==
  LET g == SelectSeq(long, LAMBDA r : r.y = y /\ r.c = c /\ r.s = s /\ r.v # NaN)
  IN IF g = <<>> THEN NaN ELSE Head(g).v

\* A faulty variant of kept_groups: dropna=False, no group is dropped.
all_groups(long) == {<<r.y, r.c, r.s>> : r \in Range(long)}

\* The groups pivot_table keeps: dropna=True drops a group whose aggregate is NaN.
kept_groups(long) ==
  {<<r.y, r.c, r.s>> : r \in {q \in Range(long) : group_first(long, q.y, q.c, q.s) # NaN}}

\* Lines 63-70: pivot_table(index=[Year, Country Name], columns=Series Name,
\* values=Value, aggfunc='first') and reset_index: the kept groups unstacked,
\* rows sorted by (Year, Country Name), indicator columns sorted, NaN where
\* a row has no group for a column.
RECURSIVE PivotRows(_, _, _, _)
PivotRows(long, keys, years, inds) ==
  IF years = <<>> THEN <<>>
  ELSE LET y == Head(years)
           cs == SelectSeq(CountryOrder, LAMBDA c : <<y, c>> \in keys)
       IN [i \in 1..Len(cs) |->
             [col \in {YEAR, COUNTRY} \cup Range(inds) |->
                 IF col = YEAR THEN y
                 ELSE IF col = COUNTRY THEN cs[i]
                 ELSE group_first(long, y, cs[i], col)]]
          \o PivotRows(long, keys, Tail(years), inds)

pivot_table(long) ==
  LET g == kept_groups(long)
      inds == SortedBy({k[3] : k \in g}, IndicatorOrder)
      keys == {<<k[1], k[2]>> : k \in g}
  IN [cols |-> <<YEAR, COUNTRY>> \o inds,
      rows |-> PivotRows(long, keys, YearCols, inds)]

\* read_data(filename): [ok |-> FALSE] when astype raises, else the two tables.
read_data(file) ==
  LET cleaned == drop_code_columns(clean_rows(file))
  IN IF astype_float_fails(cleaned) THEN [ok |-> FALSE]
     ELSE LET wdi_data == astype_float(cleaned)
          IN [ok |-> TRUE, wdi_data |-> wdi_data,
              wdi_transposed |-> pivot_table(melt(wdi_data))]

---------------------------------------------------------------------------
(* fit_model_with_errors, lines 198-249 *)

\* Exact fractions <<numerator, denominator>>, denominator > 0, in lowest terms.
Euclid[a \in Nat, b \in Nat] == IF b = 0 THEN a ELSE Euclid[b, a % b]
Gcd(a, b) == Euclid[a, b]

Abs(a) == IF a < 0 THEN 0 - a ELSE a

Frac(n, d) ==
  LET g == Gcd(Abs(n), Abs(d))
      sign == IF d < 0 THEN 0 - 1 ELSE 1
  IN <<sign * (n \div g), sign * (d \div g)>>

FracAdd(p, q) == Frac(p[1] * q[2] + q[1] * p[2], p[2] * q[2])
FracMul(p, q) ==
  LET a == Frac(p[1], q[2])
      b == Frac(q[1], p[2])
  IN Frac(a[1] * b[1], a[2] * b[2])
FracInt(n) == <<n, 1>>

\* Floating-point results: a number kept to 1 / FixedPoint, an infinity or NaN.
FixedPoint == 100

FNum(v) == [k |-> "num", v |-> v]
FNaN == [k |-> "nan", v |-> 0]
FInf == [k |-> "inf", v |-> 0]
FNegInf == [k |-> "-inf", v |-> 0]

ToFloat(q) == FNum((q[1] * FixedPoint) \div q[2])

FNeg(a) ==
  IF a.k = "num" THEN FNum(0 - a.v)
  ELSE IF a.k = "inf" THEN FNegInf
  ELSE IF a.k = "-inf" THEN FInf ELSE FNaN

FAdd(a, b) ==
  IF a.k = "nan" \/ b.k = "nan" THEN FNaN
  ELSE IF a.k = "num" /\ b.k = "num" THEN FNum(a.v + b.v)
  ELSE IF a.k = "num" THEN b
  ELSE IF b.k = "num" \/ a.k = b.k THEN a
  ELSE FNaN

FSub(a, b) == FAdd(a, FNeg(b))

\* a <= b on floats: false as soon as one side is NaN.
FLeq(a, b) ==
  /\ a.k # "nan" /\ b.k # "nan"
  /\ \/ a.k = "-inf"
     \/ b.k = "inf"
     \/ a.k = "num" /\ b.k = "num" /\ a.v <= b.v

ISqrt(v) == CHOOSE r \in 0..v : r * r <= v /\ v < (r + 1) * (r + 1)

\* The square root of a fraction as a float; NaN below zero.
FSqrt(q) ==
  IF q[1] < 0 THEN FNaN
  ELSE FNum(ISqrt((q[1] * FixedPoint * FixedPoint) \div q[2]))

\* Lines 248-249: linear_function(x, a, b) = a * x + b.
linear_function(x, a, b) == FracAdd(FracMul(a, FracInt(x)), b)

\* The sums of the least-squares solution of y = a x + b over n points.
SumX(x) == Sum(x)
SumXX(x) == Sum([i \in 1..Len(x) |-> x[i] * x[i]])
SumXY(x, y) == Sum([i \in 1..Len(x) |-> x[i] * y[i]])
SpreadX(x) == Len(x) * SumXX(x) - SumX(x) * SumX(x)
CoSpread(x, y) == Len(x) * SumXY(x, y) - SumX(x) * SumX(y)

\* The least-squares parameters of linear_function: slope a and intercept b.
\* When all x are equal the fitted line only fixes a x + b at that x: the
\* model takes the horizontal line through the mean.
lsq_params(x, y) ==
  IF SpreadX(x) = 0 THEN [a |-> FracInt(0), b |-> Frac(SumX(y), Len(y))]
  ELSE LET a == Frac(CoSpread(x, y), SpreadX(x))
       IN [a |-> a,
           b |-> FracMul(FracAdd(FracInt(SumX(y)), FracMul(FracInt(0 - SumX(x)), a)),
                         Frac(1, Len(x)))]

RECURSIVE Rss(_, _, _, _)
Rss(x, y, p, i) ==
  IF i = 0 THEN FracInt(0)
  ELSE LET e == FracAdd(FracInt(y[i]),
                        FracMul(FracInt(0 - 1), linear_function(x[i], p.a, p.b)))
       IN FracAdd(FracMul(e, e), Rss(x, y, p, i - 1))

\* The residual variance s^2 = RSS / dof, RSS the sum of squared residuals.
residual_variance(x, y, dof) ==
  FracMul(Rss(x, y, lsq_params(x, y), Len(x)), Frac(1, dof))

\* Line 220: curve_fit(func, x, y): popt and pcov.  More parameters than
\* points is a TypeError, a NaN in the data a ValueError; with as many
\* points as parameters, or a singular Jacobian, pcov is filled with inf.
curve_fit(x, y) ==
  IF \E i \in 1..Len(y) : y[i] = NaN THEN [ok |-> FALSE, error |-> "ValueError"]
  ELSE IF Len(x) < 2 THEN [ok |-> FALSE, error |-> "TypeError"]
  ELSE LET n == Len(x)
           p == lsq_params(x, y)
       IN IF n = 2 \/ SpreadX(x) = 0
          THEN [ok |-> TRUE, popt |-> p, pcov |-> [finite |-> FALSE]]
          ELSE LET s2 == residual_variance(x, y, n - 2)
                   inv == Frac(1, SpreadX(x))
               IN [ok |-> TRUE, popt |-> p,
                   pcov |-> [finite |-> TRUE,
                             aa |-> FracMul(s2, FracMul(FracInt(n), inv)),
                             ab |-> FracMul(s2, FracMul(FracInt(0 - SumX(x)), inv)),
                             bb |-> FracMul(s2, FracMul(FracInt(SumXX(x)), inv))]]

\* errors.error_prop(x, func, popt, pcov): sqrt(J pcov J^T) with J = (x, 1),
\* the derivatives of linear_function, summed term by term in floats: an
\* infinite pcov gives inf for x > 0 and NaN otherwise (0 * inf, inf - inf).
error_prop(xi, pcov) ==
  IF pcov.finite
  THEN FSqrt(FracAdd(FracMul(FracInt(xi * xi), pcov.aa),
                     FracAdd(FracMul(FracInt(2 * xi), pcov.ab), pcov.bb)))
  ELSE IF xi > 0 THEN FInf ELSE FNaN

\* Student's t quantile t.ppf(1 - alpha / 2, dof) in thousandths, for the
\* levels alpha = 0.05 and alpha = 0.5 (alpha is given in thousandths).
TQuantile(alpha, dof) ==
  IF alpha = 50 THEN <<12706, 4303, 3182, 2776, 2571, 2447, 2365, 2306>>[dof]
  ELSE <<1000, 816, 765, 741, 727, 718, 711, 706>>[dof]

\* Lines 226-230 and 240-241: sm.OLS(y, add_constant(x)).fit(), its
\* predictions and get_prediction(...).conf_int(alpha): prediction -/+
\* t * se.  With no residual degree of freedom the scale and the quantile are
\* NaN.
ols_rank(x) == IF SpreadX(x) = 0 THEN 1 ELSE 2

ols_half_width(x, y, xi, alpha) ==
  LET n == Len(x)
      dof == n - ols_rank(x)
  IN IF dof = 0 THEN FNaN
     ELSE LET s2 == residual_variance(x, y, dof)
              var == IF SpreadX(x) = 0 THEN FracMul(s2, Frac(1, n))
                     ELSE FracMul(s2, Frac(n * xi * xi - 2 * xi * SumX(x) + SumXX(x),
                                           SpreadX(x)))
              se == FSqrt(var)
          IN FNum((TQuantile(alpha, dof) * se.v) \div 1000)

\* A faulty variant of band_low: the half width is added.
band_low_added(prediction, half) == FAdd(prediction, half)

\* Lines 236 and 240-241: the lower and the upper bound of a band.
band_low(prediction, half) == FSub(prediction, half)
band_high(prediction, half) == FAdd(prediction, half)

\* fit_model_with_errors(x, y, linear_function, alpha=alpha).
fit_model_with_errors(x, y, alpha) ==
  LET cf == curve_fit(x, y)
  IN IF ~cf.ok THEN cf
     ELSE LET pred == [i \in 1..Len(x) |->
                         ToFloat(linear_function(x[i], cf.popt.a, cf.popt.b))]
              sigma == [i \in 1..Len(x) |-> error_prop(x[i], cf.pcov)]
              half == [i \in 1..Len(x) |-> ols_half_width(x, y, x[i], alpha)]
          IN [ok |-> TRUE, error |-> "none", popt |-> cf.popt, pcov |-> cf.pcov,
              predictions_curve_fit |-> pred,
              predictions_ols |-> pred,
              lowerbound_curve_fit |-> [i \in 1..Len(x) |-> band_low(pred[i], sigma[i])],
              upperbound_curve_fit |-> [i \in 1..Len(x) |-> band_high(pred[i], sigma[i])],
              lowerbound_ols |-> [i \in 1..Len(x) |-> band_low(pred[i], half[i])],
              upperbound_ols |-> [i \in 1..Len(x) |-> band_high(pred[i], half[i])]]

---------------------------------------------------------------------------
(* The files the model reads *)

CountryCode(c) == IF c = "Aruba" THEN "ABW" ELSE "BEN"
SeriesCode(s) == IF s = CO2 THEN "EN.ATM.CO2E.PP.GD" ELSE "AG.LND.FRST.ZS"

\* (Series Name, Country Name) of a file row, and its two year cells.
RowKeys == {<<CO2, "Aruba">>, <<CO2, "Benin">>, <<FOREST, "Aruba">>}
RowCells == {<<"1", "1">>, <<DOTS, "2">>, <<"2", EMPTY>>}

CsvRow(k, v) ==
  [c \in Range(CsvCols) |->
     IF c = SERIES THEN k[1]
     ELSE IF c = SCODE THEN SeriesCode(k[1])
     ELSE IF c = COUNTRY THEN k[2]
     ELSE IF c = CCODE THEN CountryCode(k[2])
     ELSE v[IndexOf(YearCols, c)]]

CsvRows == {CsvRow(k, v) : k \in RowKeys, v \in RowCells}

CsvFiles ==
  {[cols |-> CsvCols, rows |-> r] :
     r \in UNION {[1..n -> CsvRows] : n \in 1..MaxRows}}

---------------------------------------------------------------------------
(* DataFrame objects *)

\* A reference that names no object yet.
NULL == 0

\* DataFrame.copy(): a new object with the same contents; <<heap, reference>>.
df_alias(h, ref) == <<h, ref>>

df_copy(h, ref) == <<Append(h, h[ref]), Len(h) + 1>>

\* A new object holding table t.
df_new(h, t) == <<Append(h, t), Len(h) + 1>>

\* obj[name] = values: the column is assigned in place, in the object itself.
set_column(h, ref, name, values) ==
  [h EXCEPT ![ref] =
     [cols |-> IF name \in Range(@.cols) THEN @.cols ELSE Append(@.cols, name),
      rows |-> [i \in 1..Len(@.rows) |->
                  [c \in Range(@.cols) \cup {name} |->
                     IF c = name THEN values[i] ELSE @.rows[i][c]]]]]

\* select_dtypes(include=np.number): the columns that do not hold text.
NumericCols(t) == SelectSeq(t.cols, LAMBDA c : c \notin {YEAR, COUNTRY, SERIES})

HasNaN(t) ==
  \E i \in 1..Len(t.rows) : \E c \in Range(NumericCols(t)) : t.rows[i][c] = NaN

---------------------------------------------------------------------------
(* visualize, lines 79-109 *)

\* Line 96: head(10).
TopN == 10

\* Line 93: rank(ascending=False) with pandas' average method, doubled so that
\* the half ranks of ties stay integers; NaN has no rank.
rank_descending(col) ==
  [i \in 1..Len(col) |->
     IF col[i] = NaN THEN NaN
     ELSE 2 + 2 * Cardinality({j \in 1..Len(col) : col[j] # NaN /\ col[j] > col[i]})
            + Cardinality({j \in 1..Len(col) : col[j] = col[i]}) - 1]

\* sort_values(by): a stable ascending sort, NaN last.
RECURSIVE SortRows(_, _)
SortRows(rows, by) ==
  IF rows = <<>> THEN <<>>
  ELSE LET Before(a, b) == a # NaN /\ (b = NaN \/ a < b)
           m == SetMin({i \in 1..Len(rows) :
                          \A j \in 1..Len(rows) : ~Before(rows[j][by], rows[i][by])})
       IN <<rows[m]>> \o SortRows(SubSeq(rows, 1, m - 1) \o SubSeq(rows, m + 1, Len(rows)), by)

sort_values(t, by) == [t EXCEPT !.rows = SortRows(t.rows, by)]

head(t, n) == [t EXCEPT !.rows = SubSeq(t.rows, 1, Min2(n, Len(t.rows)))]

\* Lines 90-109, one turn of the loop: the 2020 rows are copied into a new
\* object, ranked there, sorted and plotted.  [ok, heap].
visualize_one(h, data_frame, indicator) ==
  LET src == h[data_frame]
      sel == [src EXCEPT !.rows = SelectSeq(src.rows, LAMBDA r : r[YEAR] = "2020")]
      a == df_new(h, sel)
  IN IF indicator \notin Range(src.cols) THEN [ok |-> FALSE, heap |-> a[1]]
     ELSE LET h2 == set_column(a[1], a[2], RANK,
                               rank_descending(Column(a[1][a[2]], indicator)))
              b == df_new(h2, head(sort_values(h2[a[2]], RANK), TopN))
          IN [ok |-> TRUE, heap |-> b[1]]

\* Lines 89-109: the loop over the indicators stops at the first error.
RECURSIVE visualize(_, _, _)
visualize(h, data_frame, indicators) ==
  IF indicators = <<>> THEN [ok |-> TRUE, heap |-> h]
  ELSE LET r == visualize_one(h, data_frame, Head(indicators))
       IN IF r.ok THEN visualize(r.heap, data_frame, Tail(indicators)) ELSE r

---------------------------------------------------------------------------
(* cluster_data, lines 119-148 *)

\* Line 119: the default of n_clusters.
n_clusters_default == 4

\* Line 137: random_state=0.
random_state == 0

\* sklearn's default max_iter of KMeans (line 137 does not set it).
max_iter == 300

IntArg(v) == [kind |-> "int", val |-> v]

ColMin(t, c) == SetMin({t.rows[i][c] : i \in {k \in 1..Len(t.rows) : t.rows[k][c] # NaN}})
ColMax(t, c) == SetMax({t.rows[i][c] : i \in {k \in 1..Len(t.rows) : t.rows[k][c] # NaN}})
ColAllNaN(t, c) == \A i \in 1..Len(t.rows) : t.rows[i][c] = NaN
ColSpan(t, c) == IF ColAllNaN(t, c) THEN 0 ELSE ColMax(t, c) - ColMin(t, c)

RECURSIVE ProductOf(_)
ProductOf(s) == IF s = <<>> THEN 1 ELSE Head(s) * ProductOf(Tail(s))

\* cluster_tools.scaler: every numeric column rescaled to [0, 1] by its
\* minimum and maximum, a constant column mapped to 0.  The fractions are
\* kept over the common denominator den: a cell v stands for v / den.
scaler(t) ==
  LET cols == NumericCols(t)
      den == ProductOf([j \in 1..Len(cols) |->
                          IF ColSpan(t, cols[j]) = 0 THEN 1 ELSE ColSpan(t, cols[j])])
  IN [data |-> [cols |-> cols,
                rows |-> [i \in 1..Len(t.rows) |->
                           [c \in Range(cols) |->
                              IF t.rows[i][c] = NaN THEN NaN
                              ELSE IF ColSpan(t, c) = 0 THEN 0
                              ELSE (t.rows[i][c] - ColMin(t, c)) * (den \div ColSpan(t, c))]],
                den |-> den],
      data_min |-> [c \in Range(cols) |-> IF ColAllNaN(t, c) THEN NaN ELSE ColMin(t, c)],
      data_max |-> [c \in Range(cols) |-> IF ColAllNaN(t, c) THEN NaN ELSE ColMax(t, c)]]

\* The rows of a numeric table as points (sequences of coordinates).
Points(t) ==
  LET cols == NumericCols(t)
  IN [i \in 1..Len(t.rows) |-> [j \in 1..Len(cols) |-> t.rows[i][cols[j]]]]

\* The pseudo-random stream of a generator: a linear congruential step.
NextRandom(s) == (5 * s + 3) % 16

\* The generator KMeans draws from, and the process-wide generator
\* afterwards.  With random_state=None the process-wide generator is used
\* and advanced.
rng_global(g) == [seed |-> g, np_random |-> NextRandom(g)]

\* Line 137: random_state=0 gives every fit a fresh generator seeded with 0.
rng_for_fit(g) == [seed |-> random_state, np_random |-> g]

\* k-means++ seeding: k sample indices drawn one after the other, each among
\* the samples that differ from the centres drawn so far (a sample at
\* distance 0 from them has probability 0), or among all when none differs.
RECURSIVE InitCentres(_, _, _, _)
InitCentres(P, k, rng, chosen) ==
  IF Len(chosen) = k THEN chosen
  ELSE LET far == SelectSeq([i \in 1..Len(P) |-> i],
                            LAMBDA i : \A j \in 1..Len(chosen) : P[i] # P[chosen[j]])
           pool == IF far = <<>> THEN [i \in 1..Len(P) |-> i] ELSE far
       IN InitCentres(P, k, NextRandom(rng),
                      Append(chosen, pool[1 + (rng % Len(pool))]))

\* A centre is the mean sum / cnt of its members, kept as the pair.
CentreAt(p) == [sum |-> p, cnt |-> 1]

\* cnt^2 times the squared distance of point p to a centre.
DistNum(p, c) ==
  Sum([j \in 1..Len(p) |-> (c.cnt * p[j] - c.sum[j]) * (c.cnt * p[j] - c.sum[j])])

Closer(p, a, b) == DistNum(p, a) * b.cnt * b.cnt < DistNum(p, b) * a.cnt * a.cnt

\* A faulty variant of kmeans_labels: the labels count from 1.
kmeans_labels_from_one(P, C) ==
  [i \in 1..Len(P) |->
     SetMin({j \in 1..Len(C) : \A m \in 1..Len(C) : ~Closer(P[i], C[m], C[j])})]

\* The E-step: each point goes to the nearest centre, the first on a tie
\* (argmin); labels count from 0.
kmeans_labels(P, C) ==
  [i \in 1..Len(P) |->
     SetMin({j \in 1..Len(C) : \A m \in 1..Len(C) : ~Closer(P[i], C[m], C[j])}) - 1]

\* The M-step: each centre becomes the mean of its members.  (sklearn moves
\* an empty cluster's centre to a far sample; the model leaves it in place.)
RECURSIVE SumPoints(_, _)
SumPoints(P, idx) ==
  IF idx = <<>> THEN [j \in 1..Len(P[1]) |-> 0]
  ELSE LET rest == SumPoints(P, Tail(idx))
       IN [j \in 1..Len(P[1]) |-> P[Head(idx)][j] + rest[j]]

kmeans_centres(P, labels, C) ==
  [j \in 1..Len(C) |->
     LET members == SelectSeq([i \in 1..Len(P) |-> i], LAMBDA i : labels[i] = j - 1)
     IN IF members = <<>> THEN C[j]
        ELSE [sum |-> SumPoints(P, members), cnt |-> Len(members)]]

\* Lloyd's iterations, until the labels no longer change or max_iter is reached.
RECURSIVE lloyd(_, _, _, _)
lloyd(P, C, labels, iter) ==
  LET C2 == kmeans_centres(P, labels, C)
      labels2 == kmeans_labels(P, C2)
  IN IF labels2 = labels \/ iter >= max_iter THEN labels2
     ELSE lloyd(P, C2, labels2, iter + 1)

\* KMeans(n_clusters=k, random_state=...).fit(X), lines 137-143: parameter
\* validation, input validation, then the labels.
kmeans_fit(X, k, seed) ==
  IF k.kind # "int" \/ k.val < 1
  THEN [ok |-> FALSE, error |-> "InvalidParameterError"]
  ELSE IF NumericCols(X) = <<>> \/ X.rows = <<>> \/ HasNaN(X)
  THEN [ok |-> FALSE, error |-> "ValueError"]
  ELSE IF Len(X.rows) < k.val
  THEN [ok |-> FALSE, error |-> "ValueError"]
  ELSE LET P == Points(X)
           idx == InitCentres(P, k.val, NextRandom(seed), <<>>)
           C == [j \in 1..k.val |-> CentreAt(P[idx[j]])]
       IN [ok |-> TRUE, error |-> "none", labels |-> lloyd(P, C, kmeans_labels(P, C), 1)]

\* cluster_data(df, n_clusters): the copy, the scaling, the fit and the
\* assignment of the labels to the copy.
cluster_data(h, df, n_clusters, g) ==
  LET cp == df_copy(h, df)
      cluster_df == cp[2]
      scaled == scaler([cols |-> NumericCols(cp[1][cluster_df]), rows |-> cp[1][cluster_df].rows])
      rng == rng_for_fit(g)
      model == kmeans_fit(scaled.data, n_clusters, rng.seed)
  IN IF model.ok
     THEN LET out == df_new(set_column(cp[1], cluster_df, CLUSTER, model.labels), scaled.data)
          IN [ok |-> TRUE, error |-> "none", heap |-> out[1], cluster_df |-> cluster_df,
              normalized_data |-> out[2], np_random |-> rng.np_random]
     ELSE [ok |-> FALSE, error |-> model.error, heap |-> cp[1],
           np_random |-> rng.np_random]

---------------------------------------------------------------------------
(* visualize_clusters, lines 153-184 *)

\* The loop over the indicators: each is plotted against the cluster column
\* of the table, which is only read.
visualize_clusters(h, clustered_data, cluster_column, indicators) ==
  [ok |-> /\ cluster_column \in Range(h[clustered_data].cols)
          /\ \A i \in 1..Len(indicators) : indicators[i] \in Range(h[clustered_data].cols),
   heap |-> h]

---------------------------------------------------------------------------
(* The script, lines 74-273 *)

\* The module-level statements in program order.
StageOrder ==
  <<"read_data", "indicator_list", "visualize", "map_corr", "cluster_data",
    "visualize_clusters", "plot_clusters", "fit_model", "plot_fit", "g_data",
    "done">>

\* A faulty variant of after_stage: an exception is swallowed and the script goes on.
after_stage_ignoring_errors(stage, ok) == StageOrder[IndexOf(StageOrder, stage) + 1]

\* Where the script is after a statement: at the next one, or stopped by
\* the exception the statement raised.
after_stage(stage, ok) ==
  IF ok THEN StageOrder[IndexOf(StageOrder, stage) + 1] ELSE "failed"

Step(stage, ok) ==
  /\ pc = stage
  /\ pc' = after_stage(stage, ok)
  /\ failed_at' = IF ok THEN failed_at ELSE stage
  /\ visited' = Append(visited, stage)

\* The states of numpy's process-wide generator when the script starts.
GlobalSeeds == {1, 6}

\* Series.unique(): the distinct values in order of first appearance.
RECURSIVE unique(_)
unique(s) ==
  IF s = <<>> THEN <<>>
  ELSE LET front == unique(SubSeq(s, 1, Len(s) - 1))
       IN IF s[Len(s)] \in Range(front) THEN front ELSE Append(front, s[Len(s)])

Init ==
  /\ pc = "read_data"
  /\ failed_at = "none"
  /\ visited = <<>>
  /\ csv \in CsvFiles
  /\ heap = <<>>
  /\ df1 = NULL /\ df2 = NULL /\ c_data = NULL /\ n_data = NULL
  /\ indicator_list = <<>>
  /\ fit_result = <<>>
  /\ wdi_filled = <<>>
  /\ np_random = 1
  /\ call = <<>>

\* Line 74: df1, df2 = read_data('cluster_data.csv').
ReadData ==
  /\ LET r == read_data(csv)
     IN /\ Step("read_data", r.ok)
        /\ IF r.ok
           THEN /\ heap' = heap \o <<r.wdi_data, r.wdi_transposed>>
                /\ df1' = Len(heap) + 1
                /\ df2' = Len(heap) + 2
           ELSE UNCHANGED <<heap, df1, df2>>
  /\ wdi_filled' = filled_table(csv)
  /\ UNCHANGED <<csv, indicator_list, c_data, n_data, fit_result, np_random, call>>

\* Line 76: indicator_list = df1['Series Name'].unique().
IndicatorList ==
  /\ Step("indicator_list", TRUE)
  /\ indicator_list' = unique(Column(heap[df1], SERIES))
  /\ UNCHANGED <<csv, heap, df1, df2, c_data, n_data, fit_result, wdi_filled,
                 np_random, call>>

\* Line 113: visualize(df2, indicator_list).  The objects the call made are
\* unreachable when it returns.
Visualize ==
  /\ LET r == visualize(heap, df2, indicator_list)
     IN /\ Step("visualize", r.ok)
        /\ heap' = SubSeq(r.heap, 1, Len(heap))
  /\ UNCHANGED <<csv, df1, df2, indicator_list, c_data, n_data, fit_result,
                 wdi_filled, np_random, call>>

\* Line 116: map_corr(df2.select_dtypes(include=np.number)) draws the
\* correlation map of a new table of the numeric columns.
MapCorr ==
  /\ Step("map_corr", TRUE)
  /\ UNCHANGED <<csv, heap, df1, df2, indicator_list, c_data, n_data, fit_result,
                 wdi_filled, np_random, call>>

\* Line 150: c_data, n_data = cluster_data(df2).
ClusterData ==
  /\ LET r == cluster_data(heap, df2, IntArg(n_clusters_default), np_random)
     IN /\ Step("cluster_data", r.ok)
        /\ np_random' = r.np_random
        /\ IF r.ok
           THEN /\ heap' = r.heap
                /\ c_data' = r.cluster_df
                /\ n_data' = r.normalized_data
           ELSE /\ heap' = SubSeq(r.heap, 1, Len(heap))
                /\ UNCHANGED <<c_data, n_data>>
  /\ UNCHANGED <<csv, df1, df2, indicator_list, fit_result, wdi_filled, call>>

\* Line 189: visualize_clusters(c_data, "Cluster", indicator_list).
VisualizeClusters ==
  /\ LET r == visualize_clusters(heap, c_data, CLUSTER, indicator_list)
     IN /\ Step("visualize_clusters", r.ok)
        /\ heap' = SubSeq(r.heap, 1, Len(heap))
  /\ UNCHANGED <<csv, df1, df2, indicator_list, c_data, n_data, fit_result,
                 wdi_filled, np_random, call>>

\* Lines 192-195: c_data.groupby('Cluster').last().plot(kind='bar').
PlotClusters ==
  /\ Step("plot_clusters", TRUE)
  /\ UNCHANGED <<csv, heap, df1, df2, indicator_list, c_data, n_data, fit_result,
                 wdi_filled, np_random, call>>

\* Line 252: astype('int') of the Year column.
YearInts == <<1980, 2020>>
year_int(y) == YearInts[IndexOf(YearCols, y)]

\* Line 207: the default of alpha, in thousandths.
alpha_default == 50

\* Lines 252-261: x_data, y_data and the call of fit_model_with_errors.
FitModel ==
  /\ pc = "fit_model"
  /\ IF CO2 \notin Range(heap[df2].cols)
     THEN /\ Step("fit_model", FALSE)
          /\ UNCHANGED fit_result
     ELSE LET x_data == [i \in 1..Len(heap[df2].rows) |-> year_int(heap[df2].rows[i][YEAR])]
              y_data == Column(heap[df2], CO2)
          IN \E r \in {fit_model_with_errors(x_data, y_data, alpha_default)} :
               /\ Step("fit_model", r.ok)
               /\ fit_result' = IF r.ok THEN r ELSE fit_result
  /\ UNCHANGED <<csv, heap, df1, df2, indicator_list, c_data, n_data, wdi_filled,
                 np_random, call>>

\* Lines 264-271: the plot of the data, the OLS line and its band.
PlotFit ==
  /\ Step("plot_fit", TRUE)
  /\ UNCHANGED <<csv, heap, df1, df2, indicator_list, c_data, n_data, fit_result,
                 wdi_filled, np_random, call>>

\* Line 273: g_data = c_data.groupby('Cluster').last(), a new table.
GData ==
  /\ Step("g_data", TRUE)
  /\ UNCHANGED <<csv, heap, df1, df2, indicator_list, c_data, n_data, fit_result,
                 wdi_filled, np_random, call>>

Next ==
  \/ ReadData
  \/ IndicatorList
  \/ Visualize
  \/ MapCorr
  \/ ClusterData
  \/ VisualizeClusters
  \/ PlotClusters
  \/ FitModel
  \/ PlotFit
  \/ GData

Spec == Init /\ [][Next]_vars

---------------------------------------------------------------------------
(* cluster_data called directly, twice on the same table *)

\* The numeric cells of a row of the tables cluster_data is called on.
ClusterPoints == {<<0, 0>>, <<1, 0>>, <<3, 2>>, <<NaN, 1>>}

WideRow(i, p) ==
  [c \in {YEAR, COUNTRY, CO2, FOREST} |->
     IF c = YEAR THEN YearCols[((i - 1) % 2) + 1]
     ELSE IF c = COUNTRY THEN CountryOrder[(((i - 1) \div 2) % 2) + 1]
     ELSE IF c = CO2 THEN p[1] ELSE p[2]]

ClusterInputs ==
  {[cols |-> <<YEAR, COUNTRY, CO2, FOREST>>,
    rows |-> [i \in 1..Len(ps) |-> WideRow(i, ps[i])]] :
     ps \in UNION {[1..n -> ClusterPoints] : n \in 1..MaxRows}}

\* The values of n_clusters: integers from -1 to past the row count, and 2.0.
KArgs == {IntArg(v) : v \in (0 - 1)..(MaxRows + 1)} \cup {[kind |-> "float", val |-> 2]}

InitCluster ==
  /\ pc = "call_cluster_data"
  /\ failed_at = "none"
  /\ visited = <<>>
  /\ csv = <<>>
  /\ \E t \in ClusterInputs : heap = <<t>>
  /\ df1 = NULL /\ df2 = NULL /\ c_data = NULL /\ n_data = NULL
  /\ indicator_list = <<>>
  /\ fit_result = <<>>
  /\ wdi_filled = <<>>
  /\ np_random \in GlobalSeeds
  /\ \E k \in KArgs : call = [df |-> 1, n_clusters |-> k, runs |-> <<>>]

\* cluster_data(df, n_clusters), once more while it has run less than twice.
CallClusterData ==
  /\ pc = "call_cluster_data"
  /\ LET r == cluster_data(heap, call.df, call.n_clusters, np_random)
     IN /\ np_random' = r.np_random
        /\ IF r.ok
           THEN /\ heap' = r.heap
                /\ call' = [call EXCEPT !.runs =
                              Append(@, [ok |-> TRUE, error |-> "none",
                                         cluster_df |-> r.cluster_df,
                                         normalized_data |-> r.normalized_data])]
           ELSE /\ heap' = SubSeq(r.heap, 1, Len(heap))
                /\ call' = [call EXCEPT !.runs =
                              Append(@, [ok |-> FALSE, error |-> r.error,
                                         cluster_df |-> NULL, normalized_data |-> NULL])]
  /\ pc' = IF Len(call.runs) = 0 THEN "call_cluster_data" ELSE "returned"
  /\ UNCHANGED <<failed_at, visited, csv, df1, df2, indicator_list, c_data, n_data,
                 fit_result, wdi_filled>>

NextCluster == CallClusterData

SpecCluster == InitCluster /\ [][NextCluster]_vars

---------------------------------------------------------------------------
(* fit_model_with_errors called directly *)

FitXValues == {0, 1, 3}
FitYValues == {0, 2, NaN}
FitAlphas == {50, 500}

InitFit ==
  /\ pc = "call_fit_model"
  /\ failed_at = "none"
  /\ visited = <<>>
  /\ csv = <<>>
  /\ heap = <<>>
  /\ df1 = NULL /\ df2 = NULL /\ c_data = NULL /\ n_data = NULL
  /\ indicator_list = <<>>
  /\ fit_result = <<>>
  /\ wdi_filled = <<>>
  /\ np_random = 1
  /\ \E n \in 1..MaxRows : \E x \in [1..n -> FitXValues] : \E y \in [1..n -> FitYValues] :
       \E a \in FitAlphas : call = [x |-> x, y |-> y, alpha |-> a]

\* fit_model_with_errors(x, y, linear_function, alpha=alpha).
CallFitModel ==
  /\ pc = "call_fit_model"
  /\ fit_result' = fit_model_with_errors(call.x, call.y, call.alpha)
  /\ pc' = "returned"
  /\ UNCHANGED <<failed_at, visited, csv, heap, df1, df2, indicator_list, c_data,
                 n_data, wdi_filled, np_random, call>>

NextFit == CallFitModel

SpecFit == InitFit /\ [][NextFit]_vars

---------------------------------------------------------------------------
(* Claims about read_data *)

\* A cell of the file that is missing: the '..' token or empty.
MissingInFile(v) == v = DOTS \/ v = EMPTY

ReadDone == visited = <<"read_data">>
ReadOk == pc = "indicator_list"

\* The valid rows of column c of the file above and below position i.
ValidAbove(c, i) == {j \in 1..(i - 1) : ~MissingInFile(csv.rows[j][c])}
ValidBelow(c, i) == {j \in (i + 1)..Len(csv.rows) : ~MissingInFile(csv.rows[j][c])}

\* C1: after the fills of line 38, in every column with at least one
\* non-missing cell no cell is missing, a missing cell with a non-missing
\* cell above it holds the value of the nearest such cell above, a missing
\* cell with none above holds the value of the first non-missing cell
\* below, and the non-missing cells are unchanged.
C1_FillForwardThenBackward ==
  ReadDone =>
    \A c \in Range(CsvCols) :
      (\E j \in 1..Len(csv.rows) : ~MissingInFile(csv.rows[j][c])) =>
        \A i \in 1..Len(csv.rows) :
          LET before == csv.rows[i][c]
              after == wdi_filled.rows[i][c]
          IN /\ ~isna(after) /\ after # DOTS
             /\ ~MissingInFile(before) => after = before
             /\ MissingInFile(before) /\ ValidAbove(c, i) # {} =>
                  after = csv.rows[SetMax(ValidAbove(c, i))][c]
             /\ MissingInFile(before) /\ ValidAbove(c, i) = {} =>
                  after = csv.rows[SetMin(ValidBelow(c, i))][c]

\* C1's case: a column with a leading gap, filled from below, and a gap
\* between two different values, filled with the one above.
C1_Witness ==
  /\ ReadDone
  /\ \E c \in Range(YearCols) : \E i \in 1..Len(csv.rows) :
       /\ MissingInFile(csv.rows[i][c])
       /\ ValidAbove(c, i) = {} /\ ValidBelow(c, i) # {}
  /\ \E c \in Range(YearCols) : \E j \in 1..Len(csv.rows) :
       /\ MissingInFile(csv.rows[j][c])
       /\ ValidAbove(c, j) # {} /\ ValidBelow(c, j) # {}
       /\ csv.rows[SetMax(ValidAbove(c, j))][c] # csv.rows[SetMin(ValidBelow(c, j))][c]

\* The rows of a table as a set of (year, country) pairs and of indicators.
YearCountryPairs(t) ==
  {<<y, t.rows[i][COUNTRY]>> : y \in Range(YearCols), i \in 1..Len(t.rows)}
IndicatorsOf(t) == {t.rows[i][SERIES] : i \in 1..Len(t.rows)}

\* The same, counting only the cells that hold a value.
ValuedPairs(t) ==
  {<<p[1], t.rows[p[2]][COUNTRY]>> :
     p \in {q \in Range(YearCols) \X (1..Len(t.rows)) : t.rows[q[2]][q[1]] # NaN}}
ValuedIndicators(t) ==
  {t.rows[i][SERIES] : i \in {k \in 1..Len(t.rows) :
                                \E y \in Range(YearCols) : t.rows[k][y] # NaN}}

NoRepeat(s) == \A i, j \in 1..Len(s) : s[i] = s[j] => i = j

WideKeys(w) == [i \in 1..Len(w.rows) |-> <<w.rows[i][YEAR], w.rows[i][COUNTRY]>>]

\* C2 as stated: the wide table has exactly one row per (year, country) pair
\* of the cleaned table and one column per indicator plus the two key columns.
C2_Original ==
  ReadOk =>
    /\ NoRepeat(WideKeys(heap[df2]))
    /\ Range(WideKeys(heap[df2])) = YearCountryPairs(heap[df1])
    /\ NoRepeat(heap[df2].cols)
    /\ Range(heap[df2].cols) = {YEAR, COUNTRY} \cup IndicatorsOf(heap[df1])

\* C2 amended: the wide table has exactly one row per (year, country) pair
\* for which the cleaned table holds at least one non-missing value, and one
\* column per indicator with at least one non-missing value, plus the two
\* key columns.
C2_RowsAndColumnsOfValuedPairs ==
  ReadOk =>
    /\ NoRepeat(WideKeys(heap[df2]))
    /\ Range(WideKeys(heap[df2])) = ValuedPairs(heap[df1])
    /\ NoRepeat(heap[df2].cols)
    /\ Range(heap[df2].cols) = {YEAR, COUNTRY} \cup ValuedIndicators(heap[df1])

\* C2's case: a read where a year column holds no value at all, next to
\* one where two countries and two indicators are reshaped.
C2_Witness ==
  /\ ReadOk
  /\ ValuedPairs(heap[df1]) # YearCountryPairs(heap[df1])
  /\ Cardinality(ValuedIndicators(heap[df1])) = 2
  /\ Len(heap[df2].rows) = 2

\* The long table of the cleaned table, and the wide table melted back.
LongRows == melt(heap[df1])
LongSet == {<<r.y, r.c, r.s, r.v>> : r \in Range(LongRows)}
MeltedBack ==
  {<<heap[df2].rows[i][YEAR], heap[df2].rows[i][COUNTRY], s, heap[df2].rows[i][s]>> :
     i \in 1..Len(heap[df2].rows), s \in Range(heap[df2].cols) \ {YEAR, COUNTRY}}

\* C3 as stated: melting the wide table back gives exactly the rows of the
\* long table.
C3_Original == ReadOk => MeltedBack = LongSet

\* The long rows of one triple that hold a value, by position.
ValuedAt(y, c, s) ==
  {i \in 1..Len(LongRows) :
     /\ LongRows[i].y = y /\ LongRows[i].c = c /\ LongRows[i].s = s
     /\ LongRows[i].v # NaN}

\* C3 amended: the non-missing cells of the wide table melted back are
\* exactly, for every (year, country, indicator) triple with a non-missing
\* value in the long table, the first such value in row order: no value is
\* added or changed, and a value is lost only when it is missing or a later
\* duplicate of its triple.
C3_RoundTripUpToFirst ==
  ReadOk =>
    {m \in MeltedBack : m[4] # NaN} =
      {<<r.y, r.c, r.s, LongRows[SetMin(ValuedAt(r.y, r.c, r.s))].v>> :
         r \in {q \in Range(LongRows) : q.v # NaN}}

\* C3's case: two cleaned rows of one (indicator, country) with different
\* values in a year column.
C3_Witness ==
  /\ ReadOk
  /\ \E i, j \in 1..Len(LongRows) :
       /\ i < j /\ LongRows[i].y = LongRows[j].y /\ LongRows[i].c = LongRows[j].c
       /\ LongRows[i].s = LongRows[j].s
       /\ LongRows[i].v # NaN /\ LongRows[j].v # NaN /\ LongRows[i].v # LongRows[j].v

\* The table after filling and de-duplication, computed from the file.
FilledDeduped == drop_duplicates(filled_table(csv))

\* C10: the cleaned table is exactly the first min(MetaRowStart, n) rows, in
\* order, of the n-row table obtained by filling and then removing fully
\* duplicated rows, and the wide table is built from those rows alone.
C10_FillDedupThenCut ==
  ReadOk =>
    LET n == Len(FilledDeduped.rows)
        first == [FilledDeduped EXCEPT !.rows = SubSeq(@, 1, Min2(MetaRowStart, n))]
    IN /\ heap[df1] = astype_float(drop_code_columns(first))
       /\ heap[df2] = pivot_table(melt(heap[df1]))

\* C10's case: the file has more rows than the cut keeps and a duplicated
\* row among them, so that cutting before de-duplicating would keep fewer
\* rows than the cleaned table has.
C10_Witness ==
  /\ ReadOk
  /\ Len(csv.rows) > MetaRowStart
  /\ Len(FilledDeduped.rows) < Len(csv.rows)
  /\ Len(heap[df1].rows) = MetaRowStart
  /\ Len(drop_duplicates(drop_meta_rows(filled_table(csv))).rows) < MetaRowStart

---------------------------------------------------------------------------
(* Claims about cluster_data *)

\* The table cluster_data was called on and the runs that have returned.
ClusterInput == heap[call.df]
Runs == 1..Len(call.runs)
RunTable(r) == heap[call.runs[r].cluster_df]
RunLabels(r) == Column(RunTable(r), CLUSTER)

\* C4: a call of cluster_data(df, k) that returns gives a table with as many
\* rows as df and a 'Cluster' column whose every cell is an integer in
\* 0..k-1; for k = 1 every cell is 0.
C4_OneLabelPerRowInRange ==
  \A r \in Runs :
    call.runs[r].ok =>
      /\ CLUSTER \in Range(RunTable(r).cols)
      /\ Len(RunLabels(r)) = Len(ClusterInput.rows)
      /\ \A i \in 1..Len(RunLabels(r)) : RunLabels(r)[i] \in 0..(call.n_clusters.val - 1)
      /\ call.n_clusters.val = 1 => \A i \in 1..Len(RunLabels(r)) : RunLabels(r)[i] = 0

\* C4's case: a call with k = 2 on three rows that returned and used both
\* labels.
C4_Witness ==
  /\ call.n_clusters = IntArg(2)
  /\ Len(ClusterInput.rows) = 3
  /\ \E r \in Runs : call.runs[r].ok /\ Range(RunLabels(r)) = {0, 1}

\* The number of distinct rows the cluster engine is given.
DistinctRows == Cardinality(Range(Points(ClusterInput)))

\* A k the claim calls invalid: not an integer, not positive, or more than
\* the number of distinct rows.
InvalidK ==
  \/ call.n_clusters.kind # "int"
  \/ call.n_clusters.val < 1
  \/ call.n_clusters.val > DistinctRows

\* C6 as stated: a call with an invalid k fails with InvalidParameterError
\* and no table carries a 'Cluster' column afterwards.
C6_InvalidKRejected ==
  InvalidK =>
    /\ \A r \in Runs : ~call.runs[r].ok /\ call.runs[r].error = "InvalidParameterError"
    /\ \A o \in 1..Len(heap) : CLUSTER \notin Range(heap[o].cols)

\* C9: two calls of cluster_data on the same table with the same n_clusters
\* end alike, and when they return their 'Cluster' columns are equal.
C9_SameLabelsOnSameInput ==
  Len(call.runs) = 2 =>
    /\ call.runs[1].ok = call.runs[2].ok
    /\ call.runs[1].ok => RunLabels(1) = RunLabels(2)

\* C9's case: two calls with k = 2 returned, with both labels in use, while
\* the process-wide generator was in a state other than the seed.
C9_Witness ==
  /\ Len(call.runs) = 2
  /\ call.runs[1].ok /\ call.runs[2].ok
  /\ call.n_clusters = IntArg(2)
  /\ Range(RunLabels(2)) = {0, 1}
  /\ np_random # random_state

---------------------------------------------------------------------------
(* Claims about fit_model_with_errors *)

FitReturned == pc = "returned" /\ fit_result.ok

\* lower <= prediction <= upper at every x of the series, for both bands.
BandsOrdered ==
  \A i \in 1..Len(call.x) :
    /\ FLeq(fit_result.lowerbound_curve_fit[i], fit_result.predictions_curve_fit[i])
    /\ FLeq(fit_result.predictions_curve_fit[i], fit_result.upperbound_curve_fit[i])
    /\ FLeq(fit_result.lowerbound_ols[i], fit_result.predictions_ols[i])
    /\ FLeq(fit_result.predictions_ols[i], fit_result.upperbound_ols[i])

\* C5 as stated: whenever fit_model_with_errors returns, both bands are
\* ordered around their predictions at every x.
C5_Original == FitReturned => BandsOrdered

\* C5 amended: when fit_model_with_errors returns for a series of at least
\* three points whose x values are not all equal, both bands are ordered
\* around their predictions at every x.
C5_BandsOrderedWhenDetermined ==
  FitReturned /\ Len(call.x) >= 3 /\ SpreadX(call.x) # 0 => BandsOrdered

\* C5's case: a fit of three points not on a line, where both bands are
\* strictly wider than the prediction at some x.
C5_Witness ==
  /\ FitReturned /\ Len(call.x) >= 3 /\ SpreadX(call.x) # 0
  /\ \E i \in 1..Len(call.x) :
       /\ fit_result.lowerbound_curve_fit[i].k = "num"
       /\ fit_result.lowerbound_curve_fit[i].v < fit_result.predictions_curve_fit[i].v
       /\ fit_result.predictions_curve_fit[i].v < fit_result.upperbound_curve_fit[i].v
       /\ fit_result.lowerbound_ols[i].k = "num"
       /\ fit_result.lowerbound_ols[i].v < fit_result.predictions_ols[i].v
       /\ fit_result.predictions_ols[i].v < fit_result.upperbound_ols[i].v

---------------------------------------------------------------------------
(* Claims about the script *)

\* The stages that take the tables and the indicator list as arguments.
ConsumerStages == {"visualize", "cluster_data", "visualize_clusters"}

\* What a step of a consumer stage leaves alone.
ConsumerStep ==
  pc \in ConsumerStages =>
    /\ heap'[df2] = heap[df2]
    /\ RANK \notin Range(heap'[df2].cols)
    /\ CLUSTER \notin Range(heap'[df2].cols)
    /\ pc = "visualize_clusters" => heap'[c_data] = heap[c_data]
    /\ indicator_list' = indicator_list

\* C7: a step of visualize, cluster_data or visualize_clusters leaves the
\* table it is passed (df2, or c_data for visualize_clusters) with the same
\* rows, columns and values, df2 without a 'Rank' or 'Cluster' column, and
\* the indicator list unchanged.
C7_ConsumersLeaveInputs == [][ConsumerStep]_vars

\* C7's case: the three stages have returned, the clustered table carries
\* the labels and is another object than df2.
C7_Witness ==
  /\ pc = "plot_clusters"
  /\ c_data # df2
  /\ CLUSTER \in Range(heap[c_data].cols)
  /\ heap[df2].rows # <<>>

\* A stage that has run and returned.
Completed(stage) == stage \in Range(visited) /\ failed_at # stage

\* C8: the stages that have run are the first ones of the fixed order, each
\* once; the script is at the next stage unless the last one run raised, in
\* which case it has stopped there; and a stage that has not returned has
\* assigned none of its results.
C8_FixedOrderFailFast ==
  /\ Len(visited) < Len(StageOrder)
  /\ \A i \in 1..Len(visited) : visited[i] = StageOrder[i]
  /\ IF failed_at = "none"
     THEN pc = StageOrder[Len(visited) + 1]
     ELSE pc = "failed" /\ visited # <<>> /\ failed_at = visited[Len(visited)]
  /\ ~Completed("read_data") => df1 = NULL /\ df2 = NULL /\ heap = <<>>
  /\ ~Completed("indicator_list") => indicator_list = <<>>
  /\ ~Completed("cluster_data") => c_data = NULL /\ n_data = NULL
  /\ ~Completed("fit_model") => fit_result = <<>>

\* C8's case: read_data raised while cleaning; nothing was reshaped and the
\* script has stopped.
C8_Witness ==
  /\ pc = "failed"
  /\ failed_at = "read_data"
  /\ df2 = NULL

====
